---- MODULE Spec2Model ----
(***************************************************************************)
(* Model of getfiles/GetFiles.py: the recursive directory walk             *)
(* (get_files / get_files_iterator / process_file) and the counting walk   *)
(* (get_folder_and_file_count, get_folder_size, get_folders), run against  *)
(* a small file system.                                                    *)
(*                                                                         *)
(* Spec     : every call and argument combination on a file system that    *)
(*            does not change during the call.                             *)
(* SpecRace : entries are removed while the walk is running.               *)
(* SpecExt  : the extension filter, over a wide set of extension strings   *)
(*            and lists and of file names.                                 *)
(*                                                                         *)
(* Strings are sequences of one-character strings.  A path is the node id  *)
(* of the file-system entry it designates (ids are injective, as paths     *)
(* are).  Node 0 is the path handed to the call.                           *)
(***************************************************************************)
EXTENDS Integers, Sequences, FiniteSets, TLC

VARIABLES tree, exists, denied, call, pc, stack, out, exc, ret, num, touched, removals,
          handles

vars == <<tree, exists, denied, call, pc, stack, out, exc, ret, num, touched, removals,
          handles>>

\* ---------------------------------------------------------------- bounds
MaxNodes == 3
MaxRemovals == 1
MaxPieces == 2

\* ---------------------------------------------------------------- strings
LowerChar(c) ==
  CASE c = "A" -> "a"
    [] c = "B" -> "b"
    [] c = "T" -> "t"
    [] OTHER -> c

\* str.lower()
Lower(s) == [i \in 1..Len(s) |-> LowerChar(s[i])]

\* str.endswith(suffix) for one suffix
EndsWith(s, suf) ==
  /\ Len(suf) <= Len(s)
  /\ SubSeq(s, Len(s) - Len(suf) + 1, Len(s)) = suf

\* str.endswith(tuple): true iff some element of the tuple is a suffix
EndsWithAny(s, sufs) == \E i \in 1..Len(sufs) : EndsWith(s, sufs[i])

IsSpace(c) == c = " "

RECURSIVE LStrip(_)
LStrip(s) == IF s # <<>> /\ IsSpace(Head(s)) THEN LStrip(Tail(s)) ELSE s

RECURSIVE RStrip(_)
RStrip(s) ==
  IF s # <<>> /\ IsSpace(s[Len(s)]) THEN RStrip(SubSeq(s, 1, Len(s) - 1)) ELSE s

\* str.strip()
Strip(s) == RStrip(LStrip(s))

\* str.split(","): scan left to right, cutting a piece at every comma
RECURSIVE SplitFrom(_, _, _)
SplitFrom(s, i, cur) ==
  IF i > Len(s) THEN <<cur>>
  ELSE IF s[i] = "," THEN <<cur>> \o SplitFrom(s, i + 1, <<>>)
  ELSE SplitFrom(s, i + 1, Append(cur, s[i]))

Split(s) == SplitFrom(s, 1, <<>>)

HasComma(s) == \E i \in 1..Len(s) : s[i] = ","

\* ---------------------------------------------------------------- arguments
NoneArg == [type |-> "none"]
StrArg(s) == [type |-> "str", s |-> s]
ListArg(l) == [type |-> "list", l |-> l]

\* the pieces of a comma-separated str, left untrimmed
NormaliseNoStrip(e) ==
  IF e.type = "str"
  THEN IF ~HasComma(e.s) THEN ListArg(<<e.s>>) ELSE ListArg(Split(e.s))
  ELSE e

\* get_files, lines 51-53: a str becomes a tuple, anything else is passed on
NormaliseExtensions(e) ==
  IF e.type = "str"
  THEN IF ~HasComma(e.s)
       THEN ListArg(<<e.s>>)
       ELSE ListArg([i \in 1..Len(Split(e.s)) |-> Strip(Split(e.s)[i])])
  ELSE e

\* get_files_iterator, lines 99-100:
\*   extensions is None or file.name.lower().endswith(tuple(extensions))
Matches(name, e) ==
  \/ e.type = "none"
  \/ e.type = "list" /\ EndsWithAny(Lower(name), e.l)

\* ---------------------------------------------------------------- file system
Root == 0
NoNode == 0 - 1

Kinds == {"dir", "file", "link"}

\* A tree of n entries below the root.  Entries are numbered in the order
\* os.scandir reports them (breadth first), so the children of a directory
\* are enumerated by increasing id; kinds are free, so any mix of files,
\* directories and symbolic links occurs in any enumeration order.
WellFormed(t) ==
  /\ t.kind[Root] \in {"dir", "file"}
  /\ \A i \in 1..t.n : t.parent[i] < i /\ t.kind[t.parent[i]] = "dir"
  /\ \A i \in 1..(t.n - 1) : t.parent[i] <= t.parent[i + 1]

\* file names of the entries, by id (all distinct, mixed case)
NameOf(i) ==
  CASE i % 4 = 1 -> <<"a", ".", "t">>
    [] i % 4 = 2 -> <<"B", ".", "T">>
    [] i % 4 = 3 -> <<"c">>
    [] OTHER -> <<"d", ".", "t", "b">>

TreesOfSize(n) ==
  { t \in [n : {n}, parent : [1..n -> 0..(n - 1)], kind : [0..n -> Kinds],
           name : {[i \in 0..n |-> NameOf(i)]}] : WellFormed(t) }

TreesUpTo(k) == UNION { TreesOfSize(n) : n \in 0..k }

Nodes == 0..tree.n

\* the entries os.scandir(d) reports, in order: the existing children of d
RECURSIVE ChildrenFrom(_, _)
ChildrenFrom(d, i) ==
  IF i > tree.n THEN <<>>
  ELSE IF tree.parent[i] = d /\ i \in exists
       THEN <<i>> \o ChildrenFrom(d, i + 1)
       ELSE ChildrenFrom(d, i + 1)

\* the listing in the opposite order
RECURSIVE ChildrenDown(_, _)
ChildrenDown(d, i) ==
  IF i < 1 THEN <<>>
  ELSE IF tree.parent[i] = d /\ i \in exists
       THEN <<i>> \o ChildrenDown(d, i - 1)
       ELSE ChildrenDown(d, i - 1)

ChildrenReversed(d) == ChildrenDown(d, tree.n)

\* the listing with the entries that are not directories moved to the front
ChildrenFilesFirst(d) ==
  LET NotDir(e) == tree.kind[e] # "dir"
      Dir(e) == tree.kind[e] = "dir"
  IN SelectSeq(ChildrenFrom(d, 1), NotDir) \o SelectSeq(ChildrenFrom(d, 1), Dir)

Children(d) == ChildrenFrom(d, 1)

RECURSIVE IsUnder(_, _)
\* n is d or lies below d
IsUnder(n, d) ==
  IF n = d THEN TRUE
  ELSE IF n = Root THEN FALSE
  ELSE IsUnder(tree.parent[n], d)

Subtree(d) == { n \in Nodes : IsUnder(n, d) }

\* a check of existence instead of readability
AccessExistsOnly(path) == path \in exists

\* os.access(path, os.R_OK): false for a missing path too
Access(path) == path \in exists /\ path # denied

\* os.stat_result of an entry (follow_symlinks=False)
Stat(n) == [st_mtime |-> 10 + n, st_ctime |-> 20 + n, st_size |-> n]

\* ---------------------------------------------------------------- process_file
DefaultFormat == "%Y-%m-%d %H:%M:%S"

\* datetime.fromtimestamp
FromTimestamp(t) == [type |-> "datetime", t |-> t]

\* datetime.strftime: a str rendered from the value through the format
Strftime(d, fmt) == [type |-> "str", fmt |-> fmt, of |-> d.t]

\* lines 224-236
FileTime(path, time_type) ==
  IF time_type = "modified"
  THEN FromTimestamp(Stat(path).st_mtime)
  ELSE FromTimestamp(Stat(path).st_ctime)

\* the dict without the timestamp
InfoNoTime(path, time_type, as_date_time, str_format, get_size) ==
  IF get_size THEN [path |-> path] @@ ("size" :> Stat(path).st_size)
  ELSE [path |-> path]

\* lines 222-239: the dict built for a file
Info(path, time_type, as_date_time, str_format, get_size) ==
  LET info0 == [path |-> path]
      info1 == IF time_type # "none"
               THEN info0 @@ ("datetime" :>
                      IF as_date_time THEN FileTime(path, time_type)
                      ELSE Strftime(FileTime(path, time_type), str_format))
               ELSE info0
  IN IF get_size THEN info1 @@ ("size" :> Stat(path).st_size) ELSE info1

\* the dict returned whatever it holds
ProcessFileAlwaysDict(path, time_type, as_date_time, str_format, get_size) ==
  [shape |-> "dict",
   info |-> Info(path, time_type, as_date_time, str_format, get_size)]

\* line 241: return info if len(info.keys()) > 1 else path
ProcessFile(path, time_type, as_date_time, str_format, get_size) ==
  LET info == Info(path, time_type, as_date_time, str_format, get_size)
  IN IF Cardinality(DOMAIN info) > 1
     THEN [shape |-> "dict", info |-> info]
     ELSE [shape |-> "path", path |-> path]

\* number of path.stat() calls process_file makes (lines 227/231 and 239)
StatCalls(time_type, get_size) ==
  (IF time_type # "none" THEN 1 ELSE 0) + (IF get_size THEN 1 ELSE 0)

\* ---------------------------------------------------------------- inputs
TimeTypes == {"modified", "created", "none"}

\* the defaults of get_files' parameters, lines 10-15
DefaultExtensions == NoneArg
DefaultSubfolders == TRUE
DefaultTimeType == "modified"
DefaultAsDateTime == FALSE
DefaultGetSize == FALSE

\* the extensions arguments tried by the walk (None, a str, a list)
ExtArgs ==
  { NoneArg,
    StrArg(<<".", "t">>),
    ListArg(<<<<".", "T">>>>) }

\* ---------------------------------------------------------------- state
NoExc == [type |-> "none"]
NoRet == [type |-> "none"]
NoCall == [op |-> "none"]

\* one activation of a scanning function: the directory it was called on,
\* whether its os.scandir handle is open, the entries the handle reports
\* and the position of the for loop in them
Frame(d) == [path |-> d, open |-> FALSE, listing |-> <<>>, i |-> 1]

Top == stack[Len(stack)]
Pop == SubSeq(stack, 1, Len(stack) - 1)
SetTop(f) == [stack EXCEPT ![Len(stack)] = f]

Walkers == {"get_files", "get_files_iterator"}

\* the accumulators of the scanning functions (lines 121-122, 149, 179)
NoTally == [num_folders |-> 0, num_files |-> 0, total_size |-> 0, folders |-> <<>>]

Idle ==
  /\ call = NoCall
  /\ pc = "idle"
  /\ stack = <<>>
  /\ out = <<>>
  /\ exc = NoExc
  /\ ret = NoRet
  /\ num = NoTally
  /\ touched = [access |-> 0, scandir |-> 0, stat |-> 0]
  /\ removals = 0
  /\ handles = {}

\* the file system a call starts on: a tree, the root possibly missing, at
\* most one directory (possibly the root) unreadable
InitOn(trees) ==
  /\ tree \in trees
  /\ \/ exists = 0..tree.n
     \/ tree.n = 0 /\ exists = {}
  /\ denied \in {NoNode} \cup { d \in 0..tree.n : tree.kind[d] = "dir" }
  /\ Idle

Init == InitOn(TreesUpTo(MaxNodes))

\* ---------------------------------------------------------------- get_files
\* lines 45-60: the readability check, the normalisation of a str of
\* extensions, then list() of the iterator over the root
GetFiles(ext, sub, tt, adt, gs) ==
  /\ pc = "idle"
  /\ touched' = [touched EXCEPT !.access = @ + 1]
  /\ call' = [op |-> "get_files", arg |-> ext,
              extensions |-> NormaliseExtensions(ext), subfolders |-> sub,
              time_type |-> tt, as_date_time |-> adt,
              str_format |-> DefaultFormat, get_size |-> gs]
  /\ IF ~Access(Root)
     THEN /\ exc' = [type |-> "PermissionError", path |-> Root,
                  origin |-> Root, from |-> "access"]
          /\ pc' = "raised"
          /\ stack' = stack
     ELSE /\ exc' = exc
          /\ pc' = "walk"
          /\ stack' = <<Frame(Root)>>
  /\ UNCHANGED <<tree, exists, denied, out, ret, num, removals, handles>>

\* lines 63-71: the generator called directly on the root, with None or a
\* sequence of extensions (what get_files hands it)
GetFilesIterator(ext, sub, tt, adt, gs) ==
  /\ pc = "idle"
  /\ ext.type # "str"
  /\ call' = [op |-> "get_files_iterator", arg |-> ext,
              extensions |-> ext, subfolders |-> sub,
              time_type |-> tt, as_date_time |-> adt,
              str_format |-> DefaultFormat, get_size |-> gs]
  /\ pc' = "walk"
  /\ stack' = <<Frame(Root)>>
  /\ UNCHANGED <<tree, exists, denied, out, exc, ret, num, touched, removals, handles>>

\* lines 121-134: the counters start at zero and the root is scanned
GetFolderAndFileCount ==
  /\ pc = "idle"
  /\ call' = [op |-> "get_folder_and_file_count"]
  /\ num' = [num EXCEPT !.num_folders = 0, !.num_files = 0]
  /\ pc' = "walk"
  /\ stack' = <<Frame(Root)>>
  /\ UNCHANGED <<tree, exists, denied, out, exc, ret, touched, removals, handles>>

\* lines 149-160: the total starts at zero and the root is scanned
GetFolderSize ==
  /\ pc = "idle"
  /\ call' = [op |-> "get_folder_size"]
  /\ num' = [num EXCEPT !.total_size = 0]
  /\ pc' = "walk"
  /\ stack' = <<Frame(Root)>>
  /\ UNCHANGED <<tree, exists, denied, out, exc, ret, touched, removals, handles>>

\* a check of existence instead of kind
PathExists(path) == path \in exists

\* Path.is_dir(): follows links, false for a missing path
PathIsDir(path) == path \in exists /\ tree.kind[path] = "dir"

\* lines 175-189: the check that the path is a directory, then the list
\* starts empty and the root is scanned
GetFolders ==
  /\ pc = "idle"
  /\ call' = [op |-> "get_folders"]
  /\ touched' = [touched EXCEPT !.stat = @ + 1]
  /\ IF ~PathIsDir(Root)
     THEN /\ exc' = [type |-> "NotADirectoryError", path |-> Root,
                  origin |-> Root, from |-> "is_dir"]
          /\ pc' = "raised"
          /\ UNCHANGED <<stack, num>>
     ELSE /\ num' = [num EXCEPT !.folders = <<>>]
          /\ pc' = "walk"
          /\ stack' = <<Frame(Root)>>
          /\ exc' = exc
  /\ UNCHANGED <<tree, exists, denied, out, ret, removals, handles>>

\* lines 92, 126, 153, 183: with os.scandir(path) as iterator
ScanDir ==
  /\ pc = "walk"
  /\ stack # <<>>
  /\ ~Top.open
  /\ touched' = [touched EXCEPT !.scandir = @ + 1]
  /\ LET d == Top.path
         err == IF d \notin exists THEN "FileNotFoundError"
                ELSE IF tree.kind[d] # "dir" THEN "NotADirectoryError"
                ELSE IF d = denied THEN "PermissionError"
                ELSE "none"
     IN IF err # "none"
        THEN /\ exc' = [type |-> err, path |-> d, origin |-> d,
                     from |-> "scandir"]
             /\ pc' = "unwind"
             /\ stack' = stack
             /\ handles' = handles
        ELSE /\ stack' = SetTop([Top EXCEPT !.open = TRUE,
                                            !.listing = Children(d)])
             /\ handles' = handles \cup {d}
             /\ UNCHANGED <<exc, pc>>
  /\ UNCHANGED <<tree, exists, denied, call, out, ret, num, removals>>

\* DirEntry.is_dir(follow_symlinks=False), DirEntry.is_file(follow_symlinks=False)
IsDir(e) == tree.kind[e] = "dir"
IsFileOrLink(e) == tree.kind[e] # "dir"
IsFile(e) == tree.kind[e] = "file"

\* line 94: file.is_dir(follow_symlinks=False) and subfolders
DescendsNever(e) == FALSE
Descends(e) == IsDir(e) /\ call.subfolders

\* lines 99-100: the elif every entry not descended into comes to
Emits(e) == Matches(tree.name[e], call.extensions)

\* lines 93-105: one turn of the for loop of get_files_iterator
WalkEntry(e) ==
  LET advanced == SetTop([Top EXCEPT !.i = @ + 1])
  IN IF Descends(e)
     THEN /\ stack' = Append(advanced, Frame(e))
          /\ UNCHANGED <<out, exc, pc, touched>>
     ELSE IF Emits(e)
     THEN IF StatCalls(call.time_type, call.get_size) > 0 /\ e \notin exists
          THEN /\ exc' = [type |-> "FileNotFoundError", path |-> e,
                       origin |-> e, from |-> "stat"]
               /\ pc' = "unwind"
               /\ touched' = [touched EXCEPT !.stat = @ + 1]
               /\ UNCHANGED <<stack, out>>
          ELSE /\ out' = Append(out, ProcessFile(e, call.time_type,
                                  call.as_date_time, call.str_format,
                                  call.get_size))
               /\ touched' = [touched EXCEPT !.stat =
                                @ + StatCalls(call.time_type, call.get_size)]
               /\ stack' = advanced
               /\ UNCHANGED <<exc, pc>>
     ELSE /\ stack' = advanced
          /\ UNCHANGED <<out, exc, pc, touched>>

\* lines 127-132: one turn of the for loop of scan_directory
CountEntry(e) ==
  LET advanced == SetTop([Top EXCEPT !.i = @ + 1])
  IN IF IsDir(e)
     THEN /\ num' = [num EXCEPT !.num_folders = @ + 1]
          /\ stack' = Append(advanced, Frame(e))
     ELSE IF IsFile(e)
     THEN /\ num' = [num EXCEPT !.num_files = @ + 1]
          /\ stack' = advanced
     ELSE /\ num' = num
          /\ stack' = advanced

\* the size assigned instead of added
AssignSize(total, e) == Stat(e).st_size

\* line 158: total_size += entry.stat(follow_symlinks=False).st_size
AddSize(total, e) == total + Stat(e).st_size

\* lines 154-158: one turn of the for loop of get_folder_size's
\* scan_directory; entry.stat raises for an entry that is gone
SizeEntry(e) ==
  LET advanced == SetTop([Top EXCEPT !.i = @ + 1])
  IN IF IsDir(e)
     THEN /\ stack' = Append(advanced, Frame(e))
          /\ UNCHANGED <<num, exc, pc, touched>>
     ELSE IF IsFile(e)
     THEN /\ touched' = [touched EXCEPT !.stat = @ + 1]
          /\ IF e \notin exists
             THEN /\ exc' = [type |-> "FileNotFoundError", path |-> e,
                          origin |-> e, from |-> "stat"]
                  /\ pc' = "unwind"
                  /\ UNCHANGED <<stack, num>>
             ELSE /\ num' = [num EXCEPT !.total_size = AddSize(@, e)]
                  /\ stack' = advanced
                  /\ UNCHANGED <<exc, pc>>
     ELSE /\ stack' = advanced
          /\ UNCHANGED <<num, exc, pc, touched>>

\* lines 184-187: one turn of the for loop of get_folders' scan_directory
FoldersEntry(e) ==
  LET advanced == SetTop([Top EXCEPT !.i = @ + 1])
  IN IF IsDir(e)
     THEN /\ num' = [num EXCEPT !.folders = Append(@, e)]
          /\ stack' = Append(advanced, Frame(e))
     ELSE /\ num' = num
          /\ stack' = advanced

NextEntry ==
  /\ pc = "walk"
  /\ stack # <<>>
  /\ Top.open
  /\ Top.i <= Len(Top.listing)
  /\ IF call.op \in Walkers
     THEN WalkEntry(Top.listing[Top.i]) /\ num' = num
     ELSE IF call.op = "get_folder_size"
     THEN SizeEntry(Top.listing[Top.i]) /\ out' = out
     ELSE IF call.op = "get_folders"
     THEN FoldersEntry(Top.listing[Top.i]) /\ UNCHANGED <<out, exc, pc, touched>>
     ELSE CountEntry(Top.listing[Top.i]) /\ UNCHANGED <<out, exc, pc, touched>>
  /\ UNCHANGED <<tree, exists, denied, call, ret, removals, handles>>

\* the for loop is exhausted: the with block closes the handle and the
\* activation returns to its caller
ExitDir ==
  /\ pc = "walk"
  /\ stack # <<>>
  /\ Top.open
  /\ Top.i > Len(Top.listing)
  /\ stack' = Pop
  /\ handles' = handles \ {Top.path}
  /\ UNCHANGED <<tree, exists, denied, call, pc, out, exc, ret, num, touched, removals>>

\* lines 55-60 (list(...) of the exhausted generator) and lines 136, 162,
\* 191
Return ==
  /\ pc = "walk"
  /\ stack = <<>>
  /\ ret' = IF call.op \in Walkers
            THEN [type |-> "list", items |-> out]
            ELSE IF call.op = "get_folder_size"
            THEN [type |-> "int", total_size |-> num.total_size]
            ELSE IF call.op = "get_folders"
            THEN [type |-> "paths", folders |-> num.folders]
            ELSE [type |-> "tuple", num_folders |-> num.num_folders,
                  num_files |-> num.num_files]
  /\ pc' = "returned"
  /\ UNCHANGED <<tree, exists, denied, call, stack, out, exc, num, touched, removals, handles>>

\* lines 106-107: what an activation of get_files_iterator makes of an
\* exception leaving its try block: a FileNotFoundError is replaced by one
\* naming the activation's own path (origin and from keep where the first
\* error came from: the __context__ chain)
Reraise(e, path) ==
  IF e.type = "FileNotFoundError"
  THEN [e EXCEPT !.path = path]
  ELSE e

\* the exception swallowed and the walk resumed in the caller
UnwindSkip ==
  /\ pc = "unwind"
  /\ stack # <<>>
  /\ exc' = NoExc
  /\ stack' = Pop
  /\ handles' = handles \ {Top.path}
  /\ pc' = "walk"
  /\ UNCHANGED <<tree, exists, denied, call, out, ret, num, touched, removals>>

\* the handle closed on the normal exit only
UnwindLeak ==
  /\ pc = "unwind"
  /\ stack # <<>>
  /\ exc' = IF call.op \in Walkers THEN Reraise(exc, Top.path) ELSE exc
  /\ stack' = Pop
  /\ pc' = IF Len(stack) = 1 THEN "raised" ELSE "unwind"
  /\ UNCHANGED <<tree, exists, denied, call, out, ret, num, touched, removals, handles>>

\* an exception leaves one activation: the with block closes its handle;
\* get_files_iterator passes it through its except clause, scan_directory
\* has none
Unwind ==
  /\ pc = "unwind"
  /\ stack # <<>>
  /\ exc' = IF call.op \in Walkers THEN Reraise(exc, Top.path) ELSE exc
  /\ stack' = Pop
  /\ handles' = handles \ {Top.path}
  /\ pc' = IF Len(stack) = 1 THEN "raised" ELSE "unwind"
  /\ UNCHANGED <<tree, exists, denied, call, out, ret, num, touched, removals>>

\* the environment: an entry (with everything below it) is removed while
\* the walk is running
Remove(n) ==
  /\ pc = "walk"
  /\ removals < MaxRemovals
  /\ n \in exists
  /\ exists' = exists \ Subtree(n)
  /\ removals' = removals + 1
  /\ UNCHANGED <<tree, denied, call, pc, stack, out, exc, ret, num, touched, handles>>

\* lines 91-105 as a function: the paths an error-free walk of directory d
\* yields, in order, for a tuple of extensions (or None)
RECURSIVE WalkList(_, _, _)
WalkList(l, ext, sub) ==
  IF l = <<>> THEN <<>>
  ELSE LET e == Head(l)
           here == IF IsDir(e) /\ sub
                   THEN WalkList(Children(e), ext, sub)
                   ELSE IF Matches(tree.name[e], ext) THEN <<e>> ELSE <<>>
       IN here \o WalkList(Tail(l), ext, sub)

WalkDir(d, ext, sub) == WalkList(Children(d), ext, sub)

\* the steps of a call once it is made
Run ==
  \/ ScanDir
  \/ NextEntry
  \/ ExitDir
  \/ Return
  \/ Unwind

\* a call of get_files, its arguments drawn from the given sets
CallGetFiles(exts, tts, adts, gss) ==
  /\ pc = "idle"
  /\ \E ext \in exts, sub \in BOOLEAN, tt \in tts, adt \in adts, gs \in gss :
       GetFiles(ext, sub, tt, adt, gs)

\* a call of get_files_iterator, its arguments drawn from the given sets
CallGetFilesIterator(exts, tts, adts, gss) ==
  /\ pc = "idle"
  /\ \E ext \in exts, sub \in BOOLEAN, tt \in tts, adt \in adts, gs \in gss :
       GetFilesIterator(ext, sub, tt, adt, gs)

\* Spec: every call, on a file system nobody else changes
Next ==
  \/ CallGetFiles(ExtArgs, TimeTypes, BOOLEAN, BOOLEAN)
  \/ CallGetFilesIterator(ExtArgs, TimeTypes, BOOLEAN, BOOLEAN)
  \/ GetFolderAndFileCount
  \/ GetFolderSize
  \/ GetFolders
  \/ Run

Spec == Init /\ [][Next]_vars

\* SpecRace: entries are removed while the walk runs
InitRace == InitOn(TreesUpTo(MaxNodes))

NextRace ==
  \/ CallGetFiles({NoneArg}, {"modified", "none"}, {FALSE}, {FALSE})
  \/ CallGetFilesIterator({NoneArg}, {"modified", "none"}, {FALSE}, {FALSE})
  \/ GetFolderAndFileCount
  \/ GetFolderSize
  \/ GetFolders
  \/ Run
  \/ \E n \in Nodes : Remove(n)

SpecRace == InitRace /\ [][NextRace]_vars

\* SpecExt: the extension filter on its own.  One entry of any kind and any
\* of FileNames under a readable root; extensions drawn from the strings
\* made of at most MaxPieces padded words joined by commas, and from the
\* lists of at most MaxPieces words.
FileNames ==
  { <<"a", ".", "t">>, <<"A", ".", "T">>, <<"t">>, <<"a", ".", "t", "b">>,
    <<"a", " ", "t">> }

ExtWords == { <<>>, <<".", "t">>, <<".", "T">>, <<" ", "t">> }

Padded == ExtWords \cup { <<" ">> \o w : w \in ExtWords }
                   \cup { w \o <<" ">> : w \in ExtWords }
                   \cup { <<" ">> \o w \o <<" ">> : w \in ExtWords }

RECURSIVE Joined(_)
\* the strings of exactly k padded words joined by commas
Joined(k) ==
  IF k = 1 THEN Padded
  ELSE { s \o <<",">> \o w : s \in Joined(k - 1), w \in Padded }

ExtStrings == UNION { Joined(k) : k \in 1..MaxPieces }

RECURSIVE WordLists(_)
WordLists(k) ==
  IF k = 0 THEN { <<>> }
  ELSE { Append(l, w) : l \in WordLists(k - 1), w \in ExtWords }

ExtLists == UNION { WordLists(k) : k \in 0..MaxPieces }

WideExtArgs ==
  {NoneArg} \cup { StrArg(s) : s \in ExtStrings }
            \cup { ListArg(l) : l \in ExtLists }

InitExt ==
  /\ tree \in { [n |-> 1, parent |-> <<Root>>,
                 kind |-> [i \in 0..1 |-> IF i = Root THEN "dir" ELSE k],
                 name |-> [i \in 0..1 |-> IF i = Root THEN <<>> ELSE nm]] :
                 k \in Kinds, nm \in FileNames }
  /\ exists = 0..tree.n
  /\ denied = NoNode
  /\ Idle

NextExt ==
  \/ CallGetFiles(WideExtArgs, {"none"}, {FALSE}, {FALSE})
  \/ CallGetFilesIterator(WideExtArgs, {"none"}, {FALSE}, {FALSE})
  \/ ScanDir
  \/ NextEntry
  \/ ExitDir
  \/ Return

SpecExt == InitExt /\ [][NextExt]_vars

\* ================================================================ claims
\* the path an item of the result stands for
PathOf(item) == IF item.shape = "dict" THEN item.info.path ELSE item.path
Paths(items) == [i \in 1..Len(items) |-> PathOf(items[i])]
Occurrences(seq, x) == Cardinality({ i \in 1..Len(seq) : seq[i] = x })
Below == 1..tree.n
Depth2 == { n \in Below : tree.parent[n] # Root }

ReturnedFrom(op) == pc = "returned" /\ call.op = op

\* C1: get_files(root, extensions=None, subfolders=True) returns one entry
\* for every file under root at any depth, none for a directory, and no
\* path twice.
C1_EveryFileOnce ==
  (ReturnedFrom("get_files") /\ call.arg = NoneArg /\ call.subfolders) =>
    LET ps == Paths(ret.items)
    IN /\ \A n \in Below : tree.kind[n] = "file" => Occurrences(ps, n) = 1
       /\ \A i \in 1..Len(ps) : ps[i] \in Below /\ tree.kind[ps[i]] # "dir"
       /\ \A i, j \in 1..Len(ps) : ps[i] = ps[j] => i = j

C1_Witness ==
  /\ ReturnedFrom("get_files") /\ call.arg = NoneArg /\ call.subfolders
  /\ \E f \in Depth2, g \in Below \ Depth2 :
       /\ tree.kind[f] = "file" /\ tree.kind[g] = "file"
       /\ Occurrences(Paths(ret.items), f) = 1
  /\ Len(ret.items) = 2

\* C2: with subfolders=False no directory is emitted or descended into;
\* with no extension filter the result is exactly the files directly under
\* root.
C2_DirectoriesSkipped ==
  (pc = "returned" /\ call.op \in Walkers /\ ~call.subfolders) =>
    LET ps == Paths(ret.items)
    IN /\ \A i \in 1..Len(ps) : tree.kind[ps[i]] # "dir"
       /\ call.arg = NoneArg =>
            \A n \in Below :
              Occurrences(ps, n) =
                IF tree.parent[n] = Root /\ tree.kind[n] # "dir" THEN 1 ELSE 0

\* C3: with a filter configured, a file is emitted iff its lowercased name
\* ends with the lowercased form of one of the configured suffixes, so the
\* letter case of the name and of the suffixes does not matter.
LowerAll(l) == [i \in 1..Len(l) |-> Lower(l[i])]

C3_CaseInsensitive ==
  (pc = "returned" /\ call.op \in Walkers /\ call.extensions.type = "list") =>
    \A n \in Below :
      tree.kind[n] = "file" =>
        (Occurrences(Paths(ret.items), n) = 1
           <=> EndsWithAny(Lower(tree.name[n]), LowerAll(call.extensions.l)))

\* C4: get_files with a comma-separated str of extensions returns what it
\* returns for the list of the str's comma-separated pieces, each trimmed
\* of surrounding whitespace; a str without a comma stands for the list
\* holding that str.
CommaAt(s) == { i \in 1..Len(s) : s[i] = "," }

\* the position of the k-th comma of s
KthComma(s, k) ==
  CHOOSE p \in CommaAt(s) : Cardinality({ q \in CommaAt(s) : q <= p }) = k

\* the k-th comma-separated piece of s
Piece(s, k) ==
  LET n == Cardinality(CommaAt(s))
      from == IF k = 1 THEN 1 ELSE KthComma(s, k - 1) + 1
      to == IF k = n + 1 THEN Len(s) ELSE KthComma(s, k) - 1
  IN SubSeq(s, from, to)

\* p without the whitespace around it
Trimmed(p) ==
  LET ink == { i \in 1..Len(p) : p[i] # " " }
  IN IF ink = {} THEN <<>>
     ELSE SubSeq(p, CHOOSE i \in ink : \A j \in ink : i <= j,
                    CHOOSE i \in ink : \A j \in ink : j <= i)

TrimmedPieces(s) ==
  IF CommaAt(s) = {} THEN <<s>>
  ELSE [k \in 1..(Cardinality(CommaAt(s)) + 1) |-> Trimmed(Piece(s, k))]

C4_StringIsList ==
  /\ (pc = "returned" /\ call.op \in Walkers /\ call.arg.type = "list") =>
       Paths(ret.items) = WalkDir(Root, call.arg, call.subfolders)
  /\ (ReturnedFrom("get_files") /\ call.arg.type = "str") =>
       Paths(ret.items) =
         WalkDir(Root, ListArg(TrimmedPieces(call.arg.s)), call.subfolders)

C4_Witness ==
  /\ ReturnedFrom("get_files")
  /\ call.arg = StrArg(<<" ", ".", "T", ",", ".", "t", " ">>)
  /\ tree.kind[1] = "file"
  /\ tree.name[1] = <<"A", ".", "T">>
  /\ Len(ret.items) = 1

\* C5: process_file returns a record holding the path and exactly the
\* requested fields (datetime iff time_type is not None, size iff get_size)
\* when one of them is requested, and the bare path iff neither is.
Requested ==
  {"path"} \cup (IF call.time_type # "none" THEN {"datetime"} ELSE {})
           \cup (IF call.get_size THEN {"size"} ELSE {})

IsDefaultCall ==
  /\ call.op = "get_files"
  /\ call.arg = DefaultExtensions
  /\ call.subfolders = DefaultSubfolders
  /\ call.time_type = DefaultTimeType
  /\ call.as_date_time = DefaultAsDateTime
  /\ call.str_format = DefaultFormat
  /\ call.get_size = DefaultGetSize

C7_MissingRootNotFound ==
  (call.op \in Walkers /\ Root \notin exists /\ pc \in {"returned", "raised"}) =>
    /\ pc = "raised"
    /\ exc.type = "FileNotFoundError"
    /\ exc.path = Root

\* C8: when a directory of the walk (the root or a nested one) does not
\* exist at the moment it is enumerated, the FileNotFoundError the walk
\* fails with names that directory, not an ancestor.
C8_NamesOwnDirectory ==
  (pc = "raised" /\ call.op \in Walkers
     /\ exc.type = "FileNotFoundError" /\ exc.from = "scandir"
     /\ \A a \in Nodes : (IsUnder(exc.origin, a) /\ a # exc.origin) => a \in exists) =>
    exc.path = exc.origin

\* C9: when the root fails the readability check, get_files raises a
\* PermissionError naming the root before any directory is enumerated or
\* any file stat'ed.
C9_PermissionFirst ==
  (call.op = "get_files" /\ (Root \notin exists \/ denied = Root)) =>
    /\ pc = "raised"
    /\ exc.type = "PermissionError" /\ exc.path = Root
    /\ touched.scandir = 0 /\ touched.stat = 0
    /\ stack = <<>> /\ out = <<>> /\ ret = NoRet

C9_Witness ==
  /\ call.op = "get_files" /\ denied = Root /\ Root \in exists
  /\ tree.n = MaxNodes
  /\ pc = "raised"

\* C10: get_folder_and_file_count(root) returns (D, F) for a tree with D
\* directories and F files strictly below root: each counted once, the
\* root not counted.
C10_CountsBelowRoot ==
  ReturnedFrom("get_folder_and_file_count") =>
    /\ ret.num_folders = Cardinality({ n \in Below : tree.kind[n] = "dir" })
    /\ ret.num_files = Cardinality({ n \in Below : tree.kind[n] = "file" })

C10_Witness ==
  /\ ReturnedFrom("get_folder_and_file_count")
  /\ ret.num_folders = 2 /\ ret.num_files = 1
  /\ \E f \in Depth2 : tree.kind[f] = "file" /\ tree.parent[f] \in Depth2

\* C11: get_folder_size(root) is the sum of the sizes of all files under
\* root at any depth, each counted once, directories adding nothing.
RECURSIVE SumSizes(_)
SumSizes(S) ==
  IF S = {} THEN 0
  ELSE LET n == CHOOSE x \in S : TRUE
       IN Stat(n).st_size + SumSizes(S \ {n})

C11_SumOfFileSizes ==
  ReturnedFrom("get_folder_size") =>
    ret.total_size = SumSizes({ n \in Below : tree.kind[n] = "file" })

C11_Witness ==
  /\ ReturnedFrom("get_folder_size")
  /\ \E f \in Depth2, g \in Below \ Depth2 :
       /\ tree.kind[f] = "file" /\ tree.kind[g] = "file"
       /\ ret.total_size = Stat(f).st_size + Stat(g).st_size

\* C12: get_folders(root) returns every directory strictly below root once
\* (not root, not a file), each before its own descendants, a directory's
\* subtree before the directories enumerated after it; on a file it raises
\* NotADirectoryError and enumerates nothing.
C12_FoldersDepthFirst ==
  /\ ReturnedFrom("get_folders") =>
       LET f == ret.folders
       IN /\ \A n \in Below :
               Occurrences(f, n) = IF tree.kind[n] = "dir" THEN 1 ELSE 0
          /\ \A i \in 1..Len(f) : f[i] # Root
          /\ \A i, j \in 1..Len(f) :
               (f[i] # f[j] /\ IsUnder(f[j], f[i])) => i < j
          /\ \A i, j, k \in 1..Len(f) :
               (i < k /\ f[i] # f[j] /\ IsUnder(f[j], f[i]) /\ ~IsUnder(f[k], f[i]))
                 => j < k
  /\ (call.op = "get_folders" /\ tree.kind[Root] = "file") =>
       /\ pc = "raised"
       /\ exc.type = "NotADirectoryError" /\ exc.path = Root
       /\ touched.scandir = 0 /\ handles = {} /\ ret = NoRet

C12_Witness ==
  /\ ReturnedFrom("get_folders")
  /\ ret.folders = <<1, 3, 2>>
  /\ tree.parent[3] = 1

\* the walk of a call with subfolders=True, at any point of it: the entries
\* are numbered in the order their directory reports them
Walking == call.op \in Walkers /\ call.subfolders

\* C13: with subfolders=True the produced sequence follows the enumeration
\* order depth-first: of two siblings a before b, all that a yields (itself
\* or its subtree) comes before all that b yields; nothing is sorted.
C13_EnumerationOrder ==
  Walking =>
    LET ps == Paths(out)
    IN \A i, j \in 1..Len(ps) : \A a, b \in Below :
         (/\ tree.parent[a] = tree.parent[b] /\ a < b
          /\ IsUnder(ps[i], a) /\ IsUnder(ps[j], b)) => i < j

\* a.t, then c below the directory B.T: not the order of the names
C13_Witness ==
  /\ Walking /\ pc = "returned" /\ call.op = "get_files_iterator"
  /\ Paths(out) = <<1, 3>>
  /\ tree.kind[2] = "dir" /\ tree.parent[3] = 2

\* C14: for every visited directory, all of its own matched files are
\* emitted before any entry of one of its subdirectories, wherever the
\* subdirectories stand in the enumeration order.
C14_OwnFilesFirst ==
  Walking =>
    LET ps == Paths(out)
    IN \A i, j \in 1..Len(ps) : \A s \in Below :
         (/\ tree.kind[s] = "dir" /\ tree.parent[ps[i]] = tree.parent[s]
          /\ IsUnder(ps[j], s)) => i < j

\* C14 as amended: a directory's own matched file is emitted before the
\* entries of a subdirectory exactly when the directory reports the file
\* before that subdirectory; a file reported after it follows its subtree.
C14_OwnFilesWhereEnumerated ==
  Walking =>
    LET ps == Paths(out)
    IN \A i, j \in 1..Len(ps) : \A s \in Below :
         (/\ tree.kind[s] = "dir" /\ tree.parent[ps[i]] = tree.parent[s]
          /\ IsUnder(ps[j], s)) => (i < j <=> ps[i] < s)

C14_Witness ==
  /\ Walking /\ pc = "returned"
  /\ Paths(out) = <<3, 2>>
  /\ tree.kind[1] = "dir" /\ tree.parent[3] = 1 /\ tree.parent[2] = Root

\* the kind of error the file system gives for the operation that failed on
\* the entry exc.origin
FailureType ==
  IF exc.from = "stat" THEN "FileNotFoundError"
  ELSE IF exc.origin \notin exists THEN "FileNotFoundError"
  ELSE IF tree.kind[exc.origin] # "dir" THEN "NotADirectoryError"
  ELSE "PermissionError"

Failed == pc \in {"unwind", "raised"} /\ exc.from \in {"scandir", "stat"}

\* C15: get_files is all-or-nothing: once an enumeration or a stat has
\* failed during the walk, the call raises that kind of error (its first
\* cause kept), returns no list, and from the failure on enumerates no
\* directory, stats no file, yields nothing and never resumes the walk.
C15_AllOrNothing ==
  /\ [](call.op = "get_files" =>
          /\ Failed => (exc.type = FailureType /\ ret = NoRet)
          /\ pc = "raised" => ret = NoRet
          /\ pc = "returned" => (exc = NoExc /\ ret.items = out))
  /\ [][(call.op = "get_files" /\ exc # NoExc) =>
          /\ pc' \in {"unwind", "raised"}
          /\ touched' = touched /\ out' = out /\ ret' = ret
          /\ exc'.type = exc.type /\ exc'.origin = exc.origin
          /\ Len(stack') <= Len(stack)]_vars

C15_Witness ==
  /\ call.op = "get_files" /\ pc = "raised" /\ Failed
  /\ exc.origin \in Depth2 /\ exc.origin \notin exists
  /\ out # <<>>
  /\ ret = NoRet

\* C16: in get_files, get_folder_and_file_count, get_folder_size and
\* get_folders no directory handle leaks: whenever an activation is at the
\* top (its enumeration about to advance, or an error leaving it) the only
\* open handles are those of the activations on the stack, each a directory
\* on the way from root to it, and none is open once the call has returned
\* or raised.
Scanners ==
  {"get_files", "get_folder_and_file_count", "get_folder_size", "get_folders"}

C16_NoHandleLeak ==
  call.op \in Scanners =>
    /\ pc \in {"returned", "raised"} => handles = {}
    /\ stack = <<>> => handles = {}
    /\ stack # <<>> =>
         /\ handles = { stack[k].path : k \in { x \in 1..Len(stack) : stack[x].open } }
         /\ \A h \in handles : IsUnder(Top.path, h)

C16_Witness ==
  /\ call.op = "get_folder_size" /\ pc = "raised"
  /\ exc.origin \in Depth2 /\ exc.from = "stat"
  /\ touched.scandir = 2
  /\ handles = {}

====
